---- MODULE Spec2Model ----
(***************************************************************************)
(* A model of ag-loader (src/src/index.ts, src/src/config.ts,               *)
(* src/src/registry.ts): the registry scanner, the text helpers of the     *)
(* transform pipeline and the injection loop of `ag-loader init`.          *)
(*                                                                         *)
(* Texts, file names and path segments are sequences of one-character      *)
(* strings, so that the regular expressions, trims and substring tests of  *)
(* the source are computed character by character.                         *)
(***************************************************************************)
EXTENDS Integers, Sequences, FiniteSets, TLC

VARIABLES
    pc,           \* position of the running command / of the function under test
    raw,          \* text handed to readMarkdown (the file's raw content)
    file,         \* name of the file the text was read from
    bodyContent,  \* result of the last readMarkdown
    again,        \* result of readMarkdown(bodyContent)
    title,        \* derived title (extractH1(bodyContent) || baseName)
    editor,       \* selectedEditor: the editor key, a directory of the registry
    stackName,    \* selectedStack: name of the stack directory
    stackDir,     \* directory listing of <registry>/<editor>/<stack>/
    globs,        \* result of globForStack(stackName)
    categories,   \* result of getCategoriesForStack
    selected,     \* selectedCategories
    loadAll,      \* the user chose "Todo el stack" (ALL_KEY)
    alwaysApply,  \* answer to the Cursor prompt
    copilotMode,  \* answer to the VS Code prompt
    catIdx,       \* index in selected of the category of the injection loop
    fileIdx,      \* index in its files of the file of the inner loop
    sections,     \* injectCopilot, global mode: the sections pushed so far
    project,      \* files of the project directory: path -> content
    projDirs,     \* directories of the project directory made by ensureDir
    ops,          \* filesystem calls settled so far, in order
    error,        \* the rejection that reached the caller of the command
    disk,         \* directories below the home directory: path -> listing
    activeRegistryPath, \* getActiveRegistryPath(): the registry the commands scan
    editorsToShow,\* list action: the editors the loop has still to show
    stacks,       \* result of getStacksForEditor
    tree,         \* getEditorTree: the tree built so far
    scaffoldIdx,  \* ensureRegistryExists: position in the scaffold
    firstRun,     \* ~/.ag-skills/ did not exist before the first command
    runs          \* number of commands started

textVars == <<raw, file, again, title>>

regVars == <<editor, stackName, stackDir>>

promptVars == <<selected, loadAll, alwaysApply, copilotMode>>

loopVars == <<catIdx, fileIdx, sections>>

fsVars == <<project, projDirs, ops, error>>

pipeVars == <<promptVars, loopVars, fsVars>>

homeVars == <<disk, activeRegistryPath, editorsToShow, stacks, tree, scaffoldIdx, firstRun, runs>>

vars == <<pc, bodyContent, globs, categories, textVars, regVars, pipeVars, homeVars>>

(***************************************************************************)
(* Bounds of the model.                                                    *)
(***************************************************************************)
MaxPieces == 5

MaxFrags == 2

MaxEntries == 3

MaxFiles == 2

MaxRuns == 2

(***************************************************************************)
(* Characters and generic string helpers (JavaScript String semantics).    *)
(***************************************************************************)
NL == "\n"

Dashes == <<"-", "-", "-">>

\* \s of a JavaScript regular expression, and the characters trim() removes.
IsWs(c) == c \in {" ", NL, "\t", "\r"}

SetMin(S) == CHOOSE x \in S : \A y \in S : x <= y

SetMax(S) == CHOOSE x \in S : \A y \in S : x >= y

\* s.slice(i - 1): the suffix starting at the 1-based index i.
From(s, i) == SubSeq(s, i, Len(s))

\* String.prototype.startsWith
StartsWith(s, p) == Len(s) >= Len(p) /\ SubSeq(s, 1, Len(p)) = p

\* String.prototype.endsWith
EndsWith(s, p) == Len(s) >= Len(p) /\ From(s, Len(s) - Len(p) + 1) = p

\* String.prototype.includes
Includes(s, p) == \E i \in 1..(Len(s) - Len(p) + 1) : SubSeq(s, i, i + Len(p) - 1) = p

\* String.prototype.trimStart
TrimStart(s) ==
    LET keep == {i \in 1..Len(s) : ~IsWs(s[i])}
    IN  IF keep = {} THEN <<>> ELSE From(s, SetMin(keep))

\* String.prototype.trimEnd
TrimEnd(s) ==
    LET keep == {i \in 1..Len(s) : ~IsWs(s[i])}
    IN  IF keep = {} THEN <<>> ELSE SubSeq(s, 1, SetMax(keep))

\* String.prototype.trim
Trim(s) == TrimEnd(TrimStart(s))

\* The concatenation of a sequence of sequences.
RECURSIVE Flatten(_)
Flatten(ss) == IF ss = <<>> THEN <<>> ELSE Head(ss) \o Flatten(Tail(ss))

\* All sequences over S of length at most n.
SeqsUpTo(S, n) == UNION {[1..k -> S] : k \in 0..n}

(***************************************************************************)
(* index.ts: text helpers.                                                 *)
(***************************************************************************)

\* hasFrontmatter: content.trimStart().startsWith('---')
hasFrontmatter(content) == StartsWith(TrimStart(content), Dashes)

\* The end of the match of /^---[\s\S]*?---\n+/ in text (0: no match). The
\* expression has no m flag: ^ is the start of the text. The lazy [\s\S]*?
\* stops at the first '---' that a newline follows; \n+ then takes every
\* newline that follows.
FrontmatterMatchEnd(text) ==
    IF ~StartsWith(text, Dashes) THEN 0
    ELSE LET closes == {k \in 4..(Len(text) - 3) :
                           SubSeq(text, k, k + 2) = Dashes /\ text[k + 3] = NL}
         IN  IF closes = {} THEN 0
             ELSE LET k == SetMin(closes)
                  IN  SetMax({e \in (k + 3)..Len(text) :
                                 \A j \in (k + 3)..e : text[j] = NL})

\* readMarkdown, on the text read from the file:
\* raw.replace(/^---[\s\S]*?---\n+/, '').trimStart() when hasFrontmatter(raw).
readMarkdown(text) ==
    IF hasFrontmatter(text)
    THEN TrimStart(From(text, FrontmatterMatchEnd(text) + 1))
    ELSE text

\* The end of the line that holds index i: the index of its last character.
LineEnd(content, i) ==
    LET nls == {j \in i..Len(content) : content[j] = NL}
    IN  IF nls = {} THEN Len(content) ELSE SetMin(nls) - 1

\* The capture group of /^#\s+(.+)$/m matched at index p, as the pair
\* <<matched, capture>>. \s+ is greedy and also takes newlines; it gives
\* characters back until (.+) finds a character that is no newline.
H1MatchAt(content, p) ==
    IF ~(content[p] = "#" /\ (p = 1 \/ content[p - 1] = NL)) THEN <<FALSE, <<>>>>
    ELSE LET run == {w \in 1..(Len(content) - p) :
                        \A j \in (p + 1)..(p + w) : IsWs(content[j])}
             ok  == {w \in run : p + w + 1 <= Len(content) /\ content[p + w + 1] # NL}
         IN  IF ok = {} THEN <<FALSE, <<>>>>
             ELSE LET w == SetMax(ok)
                  IN  <<TRUE, SubSeq(content, p + w + 1, LineEnd(content, p + w + 1))>>

\* extractH1: const match = content.match(/^#\s+(.+)$/m);
\*            return match ? match[1].trim() : ''
extractH1(content) ==
    LET hits == {p \in 1..Len(content) : H1MatchAt(content, p)[1]}
    IN  IF hits = {} THEN <<>> ELSE Trim(H1MatchAt(content, SetMin(hits))[2])

DotMd == <<".", "m", "d">>

\* path.extname(file): from the last '.' of the name, unless that '.' is its
\* first character or the name has none.
ExtName(f) ==
    LET dots == {i \in 2..Len(f) : f[i] = "."}
    IN  IF dots = {} THEN <<>> ELSE From(f, SetMax(dots))

\* path.basename(file, ext): the name without the suffix ext, unless ext is
\* empty, is not its suffix, or is the whole name.
BaseNameExt(f, ext) ==
    IF ext # <<>> /\ EndsWith(f, ext) /\ Len(f) > Len(ext)
    THEN SubSeq(f, 1, Len(f) - Len(ext))
    ELSE f

\* const ext = path.extname(file); const baseName = path.basename(file, ext)
BaseName(f) == BaseNameExt(f, ExtName(f))

\* extractH1(bodyContent) || baseName   (injectAntigravity, injectCursor)
DeriveTitle(content, f) ==
    IF extractH1(content) # <<>> THEN extractH1(content) ELSE BaseName(f)

\* extractH1(content) || path.basename(file, '.md')   (injectCopilot, global)
DeriveTitleCopilot(content, f) ==
    IF extractH1(content) # <<>> THEN extractH1(content) ELSE BaseNameExt(f, DotMd)

(***************************************************************************)
(* SpecText: the text helpers applied to every text of at most MaxPieces   *)
(* pieces.                                                                 *)
(***************************************************************************)
TextPieces == {Dashes, Dashes \o <<NL>>, <<NL>>, <<" ">>, <<"#">>, <<"a">>}

Texts == {Flatten(ps) : ps \in SeqsUpTo(TextPieces, MaxPieces)}

TextFileNames == {<<"n", ".", "m", "d">>, <<"n", ".", "v", "2", ".", "m", "d">>}

NoText == <<"?">>

NoError == [op |-> "none", path |-> <<>>]

TextIdle == raw = <<>> /\ file = <<>> /\ again = NoText /\ title = NoText

RegIdle == editor = <<>> /\ stackName = <<>> /\ stackDir = <<>>

PipeIdle ==
    /\ selected = <<>> /\ loadAll = FALSE /\ alwaysApply = FALSE
    /\ copilotMode = "instructions"
    /\ catIdx = 0 /\ fileIdx = 0 /\ sections = <<>>
    /\ project = <<>> /\ projDirs = {} /\ ops = <<>> /\ error = NoError

HomeIdle ==
    /\ disk = <<>> /\ activeRegistryPath = <<>> /\ editorsToShow = <<>>
    /\ stacks = <<>> /\ tree = <<>> /\ scaffoldIdx = 0
    /\ firstRun = FALSE /\ runs = 0

InitText ==
    /\ pc = "raw"
    /\ raw \in Texts
    /\ file \in TextFileNames
    /\ bodyContent = NoText
    /\ again = NoText
    /\ title = NoText
    /\ globs = <<>>
    /\ categories = <<>>
    /\ RegIdle
    /\ PipeIdle
    /\ HomeIdle

\* const bodyContent = await readMarkdown(src)
ReadMarkdownText ==
    /\ pc = "raw"
    /\ bodyContent' = readMarkdown(raw)
    /\ pc' = "read"
    /\ UNCHANGED <<homeVars, raw, file, again, title, globs, categories, regVars, pipeVars>>

\* readMarkdown applied to its own result
ReadMarkdownAgain ==
    /\ pc = "read"
    /\ again' = readMarkdown(bodyContent)
    /\ pc' = "reread"
    /\ UNCHANGED <<homeVars, raw, file, bodyContent, title, globs, categories, regVars, pipeVars>>

\* const description = extractH1(bodyContent) || baseName
DeriveTitleText ==
    /\ pc = "read"
    /\ title' = DeriveTitle(bodyContent, file)
    /\ pc' = "titled"
    /\ UNCHANGED <<homeVars, raw, file, bodyContent, again, globs, categories, regVars, pipeVars>>

NextText == ReadMarkdownText \/ ReadMarkdownAgain \/ DeriveTitleText

SpecText == InitText /\ [][NextText]_vars

(***************************************************************************)
(* index.ts: the glob of a stack name.                                     *)
(***************************************************************************)
UpperCase == <<"A", "B", "C", "D", "E", "F", "G", "H", "I", "J", "K", "L", "M",
               "N", "O", "P", "Q", "R", "S", "T", "U", "V", "W", "X", "Y", "Z">>

LowerCase == <<"a", "b", "c", "d", "e", "f", "g", "h", "i", "j", "k", "l", "m",
               "n", "o", "p", "q", "r", "s", "t", "u", "v", "w", "x", "y", "z">>

\* String.prototype.toLowerCase
ToLowerCase(s) ==
    [i \in 1..Len(s) |->
        IF \E k \in 1..Len(UpperCase) : UpperCase[k] = s[i]
        THEN LowerCase[CHOOSE k \in 1..Len(UpperCase) : UpperCase[k] = s[i]]
        ELSE s[i]]

\* The entries of STACK_GLOBS, in the order Object.entries yields them (the
\* order of the object literal).
STACK_GLOBS_NuxtWithVue == <<
    << <<"r","e","a","c","t">>,         <<"*","*","/","*",".","{","t","s","x",",","j","s","x",",","t","s",",","j","s","}">> >>,
    << <<"n","e","x","t">>,             <<"*","*","/","*",".","{","t","s","x",",","j","s","x",",","t","s",",","j","s","}">> >>,
    << <<"v","u","e">>,                 <<"*","*","/","*",".","{","v","u","e",",","t","s",",","j","s","}">> >>,
    << <<"n","u","x","t">>,             <<"*","*","/","*",".","{","v","u","e",",","t","s",",","j","s","}">> >>,
    << <<"a","n","g","u","l","a","r">>, <<"*","*","/","*",".","{","t","s",",","h","t","m","l","}">> >>,
    << <<"s","v","e","l","t","e">>,     <<"*","*","/","*",".","{","s","v","e","l","t","e",",","t","s","}">> >>,
    << <<"s","h","o","p","i","f","y">>, <<"*","*","/","*",".","{","l","i","q","u","i","d",",","j","s","o","n","}">> >>,
    << <<"n","o","d","e">>,             <<"*","*","/","*",".","{","t","s",",","j","s","}">> >>,
    << <<"p","y","t","h","o","n">>,     <<"*","*","/","*",".","p","y">> >>,
    << <<"l","a","r","a","v","e","l">>, <<"*","*","/","*",".","{","p","h","p",",","b","l","a","d","e",".","p","h","p","}">> >> >>

STACK_GLOBS == <<
    << <<"r","e","a","c","t">>,         <<"*","*","/","*",".","{","t","s","x",",","j","s","x",",","t","s",",","j","s","}">> >>,
    << <<"n","e","x","t">>,             <<"*","*","/","*",".","{","t","s","x",",","j","s","x",",","t","s",",","j","s","}">> >>,
    << <<"v","u","e">>,                 <<"*","*","/","*",".","{","v","u","e",",","t","s",",","j","s","}">> >>,
    << <<"a","n","g","u","l","a","r">>, <<"*","*","/","*",".","{","t","s",",","h","t","m","l","}">> >>,
    << <<"s","v","e","l","t","e">>,     <<"*","*","/","*",".","{","s","v","e","l","t","e",",","t","s","}">> >>,
    << <<"s","h","o","p","i","f","y">>, <<"*","*","/","*",".","{","l","i","q","u","i","d",",","j","s","o","n","}">> >>,
    << <<"n","o","d","e">>,             <<"*","*","/","*",".","{","t","s",",","j","s","}">> >>,
    << <<"p","y","t","h","o","n">>,     <<"*","*","/","*",".","p","y">> >>,
    << <<"l","a","r","a","v","e","l">>, <<"*","*","/","*",".","{","p","h","p",",","b","l","a","d","e",".","p","h","p","}">> >>,
    << <<"n","u","x","t">>,             <<"*","*","/","*",".","{","v","u","e",",","t","s","}">> >> >>

\* globForStack: the glob of the first entry whose key the lower-cased name
\* includes; '**/*' when there is none.
globForStack(name) ==
    LET lower == ToLowerCase(name)
        hits  == {i \in 1..Len(STACK_GLOBS) : Includes(lower, STACK_GLOBS[i][1])}
    IN  IF hits = {} THEN <<"*", "*", "/", "*">> ELSE STACK_GLOBS[SetMin(hits)][2]

(***************************************************************************)
(* SpecGlob: globForStack applied to every stack name of at most MaxFrags  *)
(* fragments.                                                              *)
(***************************************************************************)
NameFragments ==
    {STACK_GLOBS[i][1] : i \in 1..Len(STACK_GLOBS)}
    \cup {<<"N","e","x","t",".","j","s"," ","A","p","p">>,
          <<"u","n","k","n","o","w","n","-","t","h","i","n","g">>,
          <<"N","O","D","E">>, <<"V","u","e">>, <<"-">>}

StackNames == {Flatten(fs) : fs \in SeqsUpTo(NameFragments, MaxFrags)}

InitGlob ==
    /\ pc = "name"
    /\ stackName \in StackNames
    /\ editor = <<>>
    /\ stackDir = <<>>
    /\ globs = <<>>
    /\ categories = <<>>
    /\ bodyContent = NoText
    /\ TextIdle
    /\ PipeIdle
    /\ HomeIdle

\* const globs = globForStack(stackName)
GlobForStack ==
    /\ pc = "name"
    /\ globs' = globForStack(stackName)
    /\ pc' = "globbed"
    /\ UNCHANGED <<homeVars, bodyContent, categories, textVars, regVars, pipeVars>>

NextGlob == GlobForStack

SpecGlob == InitGlob /\ [][NextGlob]_vars

(***************************************************************************)
(* config.ts: the registry scanner. A directory listing is the sequence of *)
(* its entries in the order readdir returns them; an entry is              *)
(* [name, kind, entries, content], kind being "file", "dir" or "other" (a  *)
(* Dirent that is neither: a symbolic link, a socket), entries the listing *)
(* of a directory and content the text of a file.                          *)
(***************************************************************************)
RootName == <<"_", "_", "r", "o", "o", "t", "_", "_">>

\* getActiveRegistryPath(): a path is the sequence of its segments.
RegistryPath == << <<"~">>, <<".", "a", "g", "-", "s", "k", "i", "l", "l", "s">> >>

EDITORS == << <<"a","n","t","i","g","r","a","v","i","t","y">>,
              <<"c","u","r","s","o","r">>,
              <<"v","s","c","o","d","e">> >>

\* getEditorPath: path.join(registryPath, editor)
getEditorPath(registryPath, ed) == registryPath \o <<ed>>

\* (e) => e.isFile() && e.name.endsWith('.md'), without the isFile() test
IsMdFile_AnyKind(e) == EndsWith(e.name, DotMd)

\* (e) => e.isFile() && e.name.endsWith('.md')
IsMdFile(e) == e.kind = "file" /\ EndsWith(e.name, DotMd)

\* entries.filter((e) => e.isFile() && e.name.endsWith('.md')).map((e) => e.name)
RECURSIVE MdNames(_)
MdNames(entries) ==
    IF entries = <<>> THEN <<>>
    ELSE (IF IsMdFile(Head(entries)) THEN <<Head(entries).name>> ELSE <<>>)
         \o MdNames(Tail(entries))

\* entries.filter((e) => e.isDirectory())
RECURSIVE SubDirs(_)
SubDirs(entries) ==
    IF entries = <<>> THEN <<>>
    ELSE (IF Head(entries).kind = "dir" THEN <<Head(entries)>> ELSE <<>>)
         \o SubDirs(Tail(entries))

\* getCategoriesForStack that also reports the loose files, as a category of
\* their own in front of the others.
getCategoriesForStack_LooseFirst(stackPath, entries) ==
    LET subDirs == SubDirs(entries)
        rootMd  == MdNames(entries)
    IN  <<[name |-> RootName, files |-> rootMd, absPath |-> stackPath]>>
        \o [i \in 1..Len(subDirs) |->
              [name    |-> subDirs[i].name,
               files   |-> MdNames(subDirs[i].entries),
               absPath |-> stackPath \o <<subDirs[i].name>>]]

\* getCategoriesForStack, on the listing of the stack directory.
getCategoriesForStack(stackPath, entries) ==
    LET subDirs == SubDirs(entries)
        rootMd  == MdNames(entries)
    IN  IF Len(subDirs) = 0
        THEN <<[name |-> RootName, files |-> rootMd, absPath |-> stackPath]>>
        ELSE [i \in 1..Len(subDirs) |->
                [name    |-> subDirs[i].name,
                 files   |-> MdNames(subDirs[i].entries),
                 absPath |-> stackPath \o <<subDirs[i].name>>]]

\* path.join(getEditorPath(registryPath, editor), stack)
StackPath == getEditorPath(RegistryPath, editor) \o <<stackName>>

(***************************************************************************)
(* SpecScan: getCategoriesForStack applied to every stack directory of at  *)
(* most MaxEntries entries.                                                *)
(***************************************************************************)
ScanNames == {<<"a", ".", "m", "d">>, <<"b", ".", "m", "d">>, <<"c", ".", "t", "x", "t">>,
              <<"r", "u", "l", "e", "s">>, RootName}

Leaf(n, k) == [name |-> n, kind |-> k, entries |-> <<>>, content |-> <<>>]

ScanChildListings ==
    {<<>>,
     <<Leaf(<<"a", ".", "m", "d">>, "file")>>,
     <<Leaf(<<"b", ".", "m", "d">>, "file"), Leaf(<<"x", ".", "m", "d">>, "dir"),
       Leaf(<<"a", ".", "m", "d">>, "file"), Leaf(<<"c", ".", "t", "x", "t">>, "file"),
       Leaf(<<"l", ".", "m", "d">>, "other")>>}

ScanEntries ==
    {Leaf(n, k) : n \in ScanNames, k \in {"file", "other"}}
    \cup {[name |-> n, kind |-> "dir", entries |-> l, content |-> <<>>] :
             n \in ScanNames, l \in ScanChildListings}

\* The listings of a directory: no two entries bear the same name.
ScanDirs ==
    {d \in SeqsUpTo(ScanEntries, MaxEntries) :
        \A i, j \in 1..Len(d) : i # j => d[i].name # d[j].name}

InitScan ==
    /\ pc = "listed"
    /\ editor \in {EDITORS[i] : i \in 1..Len(EDITORS)}
    /\ stackName = <<"r", "e", "a", "c", "t">>
    /\ globs = <<>>
    /\ stackDir \in ScanDirs
    /\ categories = <<>>
    /\ bodyContent = NoText
    /\ TextIdle
    /\ PipeIdle
    /\ HomeIdle

\* const categories = await getCategoriesForStack(registryPath, editor, stack)
GetCategoriesForStack ==
    /\ pc = "listed"
    /\ categories' = getCategoriesForStack(StackPath, stackDir)
    /\ pc' = "scanned"
    /\ UNCHANGED <<homeVars, bodyContent, globs, textVars, regVars, pipeVars>>

NextScan == GetCategoriesForStack

SpecScan == InitScan /\ [][NextScan]_vars

(***************************************************************************)
(* index.ts: the frontmatter blocks and the injection functions. The       *)
(* program is suspended at every await of a filesystem call; the call then *)
(* resolves (one action per await) or rejects (FsReject).                  *)
(***************************************************************************)
TrueText == <<"t", "r", "u", "e">>

FalseText == <<"f", "a", "l", "s", "e">>

\* `${opts.alwaysApply}`
BoolText(b) == IF b THEN TrueText ELSE FalseText

\* buildMdcFrontmatter without the empty line that ends the block
buildMdcFrontmatter_NoEmptyLine(description, globPattern, apply) ==
    <<"-","-","-","\n","d","e","s","c","r","i","p","t","i","o","n",":"," ">> \o description
    \o <<"\n","g","l","o","b","s",":"," ">> \o globPattern
    \o <<"\n","a","l","w","a","y","s","A","p","p","l","y",":"," ">> \o BoolText(apply)
    \o <<"\n","-","-","-","\n">>

\* `---\ndescription: ${opts.description}\nglobs: ${opts.globs}\nalwaysApply: ${opts.alwaysApply}\n---\n\n`
buildMdcFrontmatter(description, globPattern, apply) ==
    <<"-","-","-","\n","d","e","s","c","r","i","p","t","i","o","n",":"," ">> \o description
    \o <<"\n","g","l","o","b","s",":"," ">> \o globPattern
    \o <<"\n","a","l","w","a","y","s","A","p","p","l","y",":"," ">> \o BoolText(apply)
    \o <<"\n","-","-","-","\n","\n">>

\* `---\nname: ${opts.name}\ndescription: ${opts.description}\n---\n\n`
buildSkillFrontmatter(name, description) ==
    <<"-","-","-","\n","n","a","m","e",":"," ">> \o name
    \o <<"\n","d","e","s","c","r","i","p","t","i","o","n",":"," ">> \o description
    \o <<"\n","-","-","-","\n","\n">>

\* `---\napplyTo: "${opts.applyTo}"\n---\n\n`
buildCopilotFrontmatter(applyTo) ==
    <<"-","-","-","\n","a","p","p","l","y","T","o",":"," ","\"">> \o applyTo
    \o <<"\"","\n","-","-","-","\n","\n">>

\* `# ${title}\n\n${content}`: the section without the trim of its content
CopilotSection_Untrimmed(sectionTitle, content) ==
    <<"#", " ">> \o sectionTitle \o <<"\n", "\n">> \o content

\* `# ${title}\n\n${content.trim()}`
CopilotSection(sectionTitle, content) ==
    <<"#", " ">> \o sectionTitle \o <<"\n", "\n">> \o Trim(content)

\* sections.join('\n\n---\n\n')
RECURSIVE JoinSections(_)
JoinSections(ss) ==
    IF ss = <<>> THEN <<>>
    ELSE IF Len(ss) = 1 THEN ss[1]
    ELSE ss[1] \o <<"\n","\n","-","-","-","\n","\n">> \o JoinSections(Tail(ss))

Antigravity == EDITORS[1]

Cursor == EDITORS[2]

VsCode == EDITORS[3]

\* process.cwd()
Cwd == << <<"c", "w", "d">> >>

\* path.join(process.cwd(), '.agent', 'skills')
SkillsDir == Cwd \o << <<".","a","g","e","n","t">>, <<"s","k","i","l","l","s">> >>

\* path.join(process.cwd(), '.cursor', 'rules')
CursorRulesDir == Cwd \o << <<".","c","u","r","s","o","r">>, <<"r","u","l","e","s">> >>

\* path.join(process.cwd(), '.github', 'instructions')
InstructionsDir ==
    Cwd \o << <<".","g","i","t","h","u","b">>, <<"i","n","s","t","r","u","c","t","i","o","n","s">> >>

\* path.join(process.cwd(), '.github')
GithubDir == Cwd \o << <<".","g","i","t","h","u","b">> >>

\* path.join(destDir, 'copilot-instructions.md')
CopilotGlobalDest ==
    GithubDir \o << <<"c","o","p","i","l","o","t","-","i","n","s","t","r","u","c","t","i","o","n","s",".","m","d">> >>

\* path.join(skillsDir, baseName)
SkillDir(f) == SkillsDir \o <<BaseName(f)>>

\* path.join(skillDir, 'SKILL.md')
AntigravityDest(f) == SkillDir(f) \o << <<"S","K","I","L","L",".","m","d">> >>

\* path.join(destDir, baseName + '.mdc')
CursorDest(f) == CursorRulesDir \o <<BaseName(f) \o <<".","m","d","c">>>>

\* path.join(destDir, baseName + '.instructions.md')
CopilotDest(f) ==
    InstructionsDir
    \o <<BaseName(f) \o <<".","i","n","s","t","r","u","c","t","i","o","n","s",".","m","d">>>>

\* The entry of a listing that bears the name n.
EntryNamed(entries, n) ==
    entries[CHOOSE i \in 1..Len(entries) : entries[i].name = n]

\* fs.readFile(src, 'utf-8') of a file of the selected stack: the content of
\* the entry at src, a path below the stack directory.
ReadFile(stackPath, entries, src) ==
    LET rel == From(src, Len(stackPath) + 1)
    IN  IF Len(rel) = 1 THEN EntryNamed(entries, rel[1]).content
        ELSE EntryNamed(EntryNamed(entries, rel[1]).entries, rel[2]).content

\* for (const cat of selectedCategories)
CurCat == selected[catIdx]

\* for (const file of category.files)
CurFile == CurCat.files[fileIdx]

\* const src = path.join(category.absPath, file)
CurSrc == CurCat.absPath \o <<CurFile>>

\* The filesystem call the program awaits at pc, as [op, path].
Pending ==
    CASE pc = "ag.ensureSkills"   -> [op |-> "ensureDir", path |-> SkillsDir]
      [] pc = "ag.ensureSkill"    -> [op |-> "ensureDir", path |-> SkillDir(CurFile)]
      [] pc = "ag.write"          -> [op |-> "writeFile", path |-> AntigravityDest(CurFile)]
      [] pc = "cu.ensureDir"      -> [op |-> "ensureDir", path |-> CursorRulesDir]
      [] pc = "cu.write"          -> [op |-> "writeFile", path |-> CursorDest(CurFile)]
      [] pc = "co.ensureDir"      -> [op |-> "ensureDir", path |-> InstructionsDir]
      [] pc = "co.write"          -> [op |-> "writeFile", path |-> CopilotDest(CurFile)]
      [] pc = "gl.ensureDir"      -> [op |-> "ensureDir", path |-> GithubDir]
      [] pc = "gl.write"          -> [op |-> "writeFile", path |-> CopilotGlobalDest]
      [] pc \in {"ag.read", "cu.read", "co.read", "gl.read"}
                                  -> [op |-> "readFile", path |-> CurSrc]

Awaiting ==
    pc \in {"ag.ensureSkills", "ag.ensureSkill", "ag.read", "ag.write",
            "cu.ensureDir", "cu.read", "cu.write",
            "co.ensureDir", "co.read", "co.write",
            "gl.ensureDir", "gl.read", "gl.write"}

\* The pending call is settled: it joins the calls made so far.
Settled(ok, data) ==
    Append(ops, [op |-> Pending.op, path |-> Pending.path, ok |-> ok,
                 cat |-> catIdx, file |-> fileIdx, data |-> data])

\* fs.writeFile(dest, data, 'utf-8') resolved
WriteFileTo(fs, dest, data) ==
    [p \in (DOMAIN fs) \cup {dest} |-> IF p = dest THEN data ELSE fs[p]]

\* The function returns to the loop of the init action once the last file of
\* the category is done; otherwise the inner loop goes on at `next`.
AfterFile(next) ==
    IF fileIdx < Len(CurCat.files)
    THEN fileIdx' = fileIdx + 1 /\ pc' = next
    ELSE fileIdx' = fileIdx /\ pc' = "returned"

(***************************************************************************)
(* injectAntigravity                                                       *)
(***************************************************************************)
\* await fs.ensureDir(skillsDir)
AgEnsureSkillsDir ==
    /\ pc = "ag.ensureSkills"
    /\ projDirs' = projDirs \cup {SkillsDir}
    /\ ops' = Settled(TRUE, <<>>)
    /\ pc' = IF Len(CurCat.files) = 0 THEN "returned" ELSE "ag.ensureSkill"
    /\ UNCHANGED <<homeVars, bodyContent, globs, categories, textVars, regVars, promptVars,
                   loopVars, project, error>>

\* await fs.ensureDir(skillDir)
AgEnsureSkillDir ==
    /\ pc = "ag.ensureSkill"
    /\ projDirs' = projDirs \cup {SkillDir(CurFile)}
    /\ ops' = Settled(TRUE, <<>>)
    /\ pc' = "ag.read"
    /\ UNCHANGED <<homeVars, bodyContent, globs, categories, textVars, regVars, promptVars,
                   loopVars, project, error>>

\* const bodyContent = await readMarkdown(src)
AgRead ==
    /\ pc = "ag.read"
    /\ bodyContent' = readMarkdown(ReadFile(StackPath, stackDir, CurSrc))
    /\ ops' = Settled(TRUE, ReadFile(StackPath, stackDir, CurSrc))
    /\ pc' = "ag.write"
    /\ UNCHANGED <<homeVars, globs, categories, textVars, regVars, promptVars, loopVars,
                   project, projDirs, error>>

\* const finalContent = buildSkillFrontmatter({ name: baseName, description }) + bodyContent
AntigravityContent(body, f) ==
    buildSkillFrontmatter(BaseName(f), DeriveTitle(body, f)) \o body

\* await fs.writeFile(dest, finalContent, 'utf-8')
AgWrite ==
    /\ pc = "ag.write"
    /\ project' = WriteFileTo(project, AntigravityDest(CurFile),
                              AntigravityContent(bodyContent, CurFile))
    /\ ops' = Settled(TRUE, AntigravityContent(bodyContent, CurFile))
    /\ AfterFile("ag.ensureSkill")
    /\ UNCHANGED <<homeVars, bodyContent, globs, categories, textVars, regVars, promptVars,
                   catIdx, sections, projDirs, error>>

(***************************************************************************)
(* injectCursor                                                            *)
(***************************************************************************)
\* await fs.ensureDir(destDir); const globs = globForStack(stackName)
CuEnsureDir ==
    /\ pc = "cu.ensureDir"
    /\ projDirs' = projDirs \cup {CursorRulesDir}
    /\ ops' = Settled(TRUE, <<>>)
    /\ globs' = globForStack(stackName)
    /\ pc' = IF Len(CurCat.files) = 0 THEN "returned" ELSE "cu.read"
    /\ UNCHANGED <<homeVars, bodyContent, categories, textVars, regVars, promptVars,
                   loopVars, project, error>>

\* The loop of injectCursor reading every file before it writes: the next
\* file is read while the file just read is not written.
CuRead_ReadsAhead ==
    /\ pc = "cu.read"
    /\ bodyContent' = readMarkdown(ReadFile(StackPath, stackDir, CurSrc))
    /\ ops' = Settled(TRUE, ReadFile(StackPath, stackDir, CurSrc))
    /\ IF fileIdx < Len(CurCat.files)
       THEN fileIdx' = fileIdx + 1 /\ pc' = "cu.read"
       ELSE fileIdx' = fileIdx /\ pc' = "cu.write"
    /\ UNCHANGED <<homeVars, globs, categories, textVars, regVars, promptVars, catIdx,
                   sections, project, projDirs, error>>

\* const bodyContent = await readMarkdown(src)
CuRead ==
    /\ pc = "cu.read"
    /\ bodyContent' = readMarkdown(ReadFile(StackPath, stackDir, CurSrc))
    /\ ops' = Settled(TRUE, ReadFile(StackPath, stackDir, CurSrc))
    /\ pc' = "cu.write"
    /\ UNCHANGED <<homeVars, globs, categories, textVars, regVars, promptVars, loopVars,
                   project, projDirs, error>>

\* const finalContent = buildMdcFrontmatter({ description, globs, alwaysApply }) + bodyContent
CursorContent(body, f, globPattern, apply) ==
    buildMdcFrontmatter(DeriveTitle(body, f), globPattern, apply) \o body

\* await fs.writeFile(dest, finalContent, 'utf-8')
CuWrite ==
    /\ pc = "cu.write"
    /\ project' = WriteFileTo(project, CursorDest(CurFile),
                              CursorContent(bodyContent, CurFile, globs, alwaysApply))
    /\ ops' = Settled(TRUE, CursorContent(bodyContent, CurFile, globs, alwaysApply))
    /\ AfterFile("cu.read")
    /\ UNCHANGED <<homeVars, bodyContent, globs, categories, textVars, regVars, promptVars,
                   catIdx, sections, projDirs, error>>

(***************************************************************************)
(* injectCopilot, mode 'instructions'                                      *)
(***************************************************************************)
\* await fs.ensureDir(destDir); const applyTo = globForStack(stackName)
CoEnsureDir ==
    /\ pc = "co.ensureDir"
    /\ projDirs' = projDirs \cup {InstructionsDir}
    /\ ops' = Settled(TRUE, <<>>)
    /\ globs' = globForStack(stackName)
    /\ pc' = IF Len(CurCat.files) = 0 THEN "returned" ELSE "co.read"
    /\ UNCHANGED <<homeVars, bodyContent, categories, textVars, regVars, promptVars,
                   loopVars, project, error>>

\* const bodyContent = await readMarkdown(src)
CoRead ==
    /\ pc = "co.read"
    /\ bodyContent' = readMarkdown(ReadFile(StackPath, stackDir, CurSrc))
    /\ ops' = Settled(TRUE, ReadFile(StackPath, stackDir, CurSrc))
    /\ pc' = "co.write"
    /\ UNCHANGED <<homeVars, globs, categories, textVars, regVars, promptVars, loopVars,
                   project, projDirs, error>>

\* const finalContent = buildCopilotFrontmatter({ applyTo }) + bodyContent
CopilotContent(body, applyTo) == buildCopilotFrontmatter(applyTo) \o body

\* await fs.writeFile(dest, finalContent, 'utf-8')
CoWrite ==
    /\ pc = "co.write"
    /\ project' = WriteFileTo(project, CopilotDest(CurFile), CopilotContent(bodyContent, globs))
    /\ ops' = Settled(TRUE, CopilotContent(bodyContent, globs))
    /\ AfterFile("co.read")
    /\ UNCHANGED <<homeVars, bodyContent, globs, categories, textVars, regVars, promptVars,
                   catIdx, sections, projDirs, error>>

(***************************************************************************)
(* injectCopilot, mode 'global'                                            *)
(***************************************************************************)
\* await fs.ensureDir(destDir); const sections: string[] = []
GlEnsureDir ==
    /\ pc = "gl.ensureDir"
    /\ projDirs' = projDirs \cup {GithubDir}
    /\ ops' = Settled(TRUE, <<>>)
    /\ sections' = <<>>
    /\ pc' = IF Len(CurCat.files) = 0 THEN "gl.write" ELSE "gl.read"
    /\ UNCHANGED <<homeVars, bodyContent, globs, categories, textVars, regVars, promptVars,
                   catIdx, fileIdx, project, error>>

\* const content = await readMarkdown(src); const title = ...; sections.push(...)
GlRead ==
    /\ pc = "gl.read"
    /\ bodyContent' = readMarkdown(ReadFile(StackPath, stackDir, CurSrc))
    /\ ops' = Settled(TRUE, ReadFile(StackPath, stackDir, CurSrc))
    /\ sections' = Append(sections,
                          CopilotSection(DeriveTitleCopilot(bodyContent', CurFile), bodyContent'))
    /\ IF fileIdx < Len(CurCat.files)
       THEN fileIdx' = fileIdx + 1 /\ pc' = "gl.read"
       ELSE fileIdx' = fileIdx /\ pc' = "gl.write"
    /\ UNCHANGED <<homeVars, globs, categories, textVars, regVars, promptVars, catIdx,
                   project, projDirs, error>>

\* await fs.writeFile(dest, sections.join('\n\n---\n\n'), 'utf-8')
GlWrite ==
    /\ pc = "gl.write"
    /\ project' = WriteFileTo(project, CopilotGlobalDest, JoinSections(sections))
    /\ ops' = Settled(TRUE, JoinSections(sections))
    /\ pc' = "returned"
    /\ UNCHANGED <<homeVars, bodyContent, globs, categories, textVars, regVars, promptVars,
                   loopVars, projDirs, error>>

(***************************************************************************)
(* A filesystem call rejects: no inject function and no caller catches, so *)
(* the rejection leaves the init action as it is. A writeFile that fails   *)
(* has created nothing, or has left the file truncated.                    *)
(***************************************************************************)
\* The rejection is caught and the loop goes on with the next step.
FsReject_Swallowed ==
    /\ Awaiting
    /\ ops' = Settled(FALSE, <<>>)
    /\ pc' = "returned"
    /\ UNCHANGED <<homeVars, bodyContent, globs, categories, textVars, regVars, promptVars,
                   loopVars, project, projDirs, error>>

FsReject ==
    /\ Awaiting
    /\ ops' = Settled(FALSE, <<>>)
    /\ error' = Pending
    /\ pc' = "failed"
    /\ \/ project' = project
       \/ /\ Pending.op = "writeFile"
          /\ project' = WriteFileTo(project, Pending.path, <<>>)
    /\ UNCHANGED <<homeVars, bodyContent, globs, categories, textVars, regVars, promptVars,
                   loopVars, projDirs>>

(***************************************************************************)
(* The init action: prompts, then the injection loop.                      *)
(***************************************************************************)
\* Paso 1 to Paso 4: the editor, the categories of the stack, the category
\* (or ALL_KEY) and the options of the editor.
Prompts ==
    /\ pc = "init"
    /\ \E ed \in {EDITORS[i] : i \in 1..Len(EDITORS)} :
          LET cats == getCategoriesForStack(getEditorPath(RegistryPath, ed) \o <<stackName>>,
                                            stackDir)
          IN  /\ editor' = ed
              /\ categories' = cats
              /\ IF Len(cats) = 1 /\ cats[1].name = RootName
                 THEN selected' = <<cats[1]>> /\ loadAll' = FALSE
                 ELSE \/ selected' = cats /\ loadAll' = TRUE
                      \/ \E n \in {cats[i].name : i \in 1..Len(cats)} :
                            /\ selected' = <<cats[CHOOSE i \in 1..Len(cats) : cats[i].name = n]>>
                            /\ loadAll' = FALSE
              /\ IF ed = Cursor THEN alwaysApply' \in BOOLEAN ELSE alwaysApply' = FALSE
              /\ IF ed = VsCode THEN copilotMode' \in {"instructions", "global"}
                 ELSE copilotMode' = "instructions"
    /\ catIdx' = 1
    /\ pc' = "loop"
    /\ UNCHANGED <<homeVars, bodyContent, globs, textVars, stackName, stackDir, fileIdx,
                   sections, fsVars>>

\* The loop without the test of cat.files.length: the inject function is
\* called for a category without files too.
SkipEmpty_Injects ==
    /\ pc = "loop"
    /\ catIdx <= Len(selected)
    /\ Len(CurCat.files) = 0
    /\ fileIdx' = 1
    /\ pc' = CASE editor = Antigravity -> "ag.ensureSkills"
               [] editor = Cursor      -> "cu.ensureDir"
               [] editor = VsCode /\ copilotMode = "instructions" -> "co.ensureDir"
               [] editor = VsCode /\ copilotMode = "global"       -> "gl.ensureDir"
    /\ UNCHANGED <<homeVars, bodyContent, globs, categories, textVars, regVars, promptVars,
                   catIdx, sections, fsVars>>

\* if (cat.files.length === 0) { ...; continue; }
SkipEmpty ==
    /\ pc = "loop"
    /\ catIdx <= Len(selected)
    /\ Len(CurCat.files) = 0
    /\ catIdx' = catIdx + 1
    /\ UNCHANGED <<homeVars, pc, bodyContent, globs, categories, textVars, regVars, promptVars,
                   fileIdx, sections, fsVars>>

\* switch (selectedEditor) { case ...: await injectX(cat, ...) }
CallInject ==
    /\ pc = "loop"
    /\ catIdx <= Len(selected)
    /\ Len(CurCat.files) # 0
    /\ fileIdx' = 1
    /\ pc' = CASE editor = Antigravity -> "ag.ensureSkills"
               [] editor = Cursor      -> "cu.ensureDir"
               [] editor = VsCode /\ copilotMode = "instructions" -> "co.ensureDir"
               [] editor = VsCode /\ copilotMode = "global"       -> "gl.ensureDir"
    /\ UNCHANGED <<homeVars, bodyContent, globs, categories, textVars, regVars, promptVars,
                   catIdx, sections, fsVars>>

\* The inject function has returned: the loop takes the next category.
NextCategory ==
    /\ pc = "returned"
    /\ catIdx' = catIdx + 1
    /\ pc' = "loop"
    /\ UNCHANGED <<homeVars, bodyContent, globs, categories, textVars, regVars, promptVars,
                   fileIdx, sections, fsVars>>

\* The loop is over: the action ends without error.
Finish ==
    /\ pc = "loop"
    /\ catIdx > Len(selected)
    /\ pc' = "done"
    /\ UNCHANGED <<homeVars, bodyContent, globs, categories, textVars, regVars, pipeVars>>

(***************************************************************************)
(* Spec: `ag-loader init` on every stack directory of at most MaxFiles     *)
(* files per directory.                                                    *)
(***************************************************************************)
PipeFileNames == << <<"a", ".", "m", "d">>, <<"b", ".", "m", "d">>, <<"c", ".", "m", "d">>,
                    <<"d", ".", "m", "d">> >>

RulesName == <<"r", "u", "l", "e", "s">>

AgentsName == <<"a", "g", "e", "n", "t", "s">>

\* The text of the k-th file name in the directory dirName: a heading and a
\* final newline; a frontmatter block; plain text after a blank.
PipeText(dirName, k) ==
    LET texts == << <<"#", " ", "T", "\n", "x", "\n">>,
                    <<"-", "-", "-", "\n", "k", "\n", "-", "-", "-", "\n", "\n", "y">>,
                    <<" ", "z">> >>
        shift == IF dirName = AgentsName THEN 1 ELSE 0
    IN  texts[((k + shift) % Len(texts)) + 1]

\* The listings of a directory of '.md' files: at most MaxFiles of the first
\* MaxFiles names, in any order.
PipeListings(dirName) ==
    {[i \in 1..Len(order) |->
        [name |-> PipeFileNames[order[i]], kind |-> "file", entries |-> <<>>,
         content |-> PipeText(dirName, order[i])]] :
     order \in {o \in SeqsUpTo(1..MaxFiles, MaxFiles) :
                   \A i, j \in 1..Len(o) : i # j => o[i] # o[j]}}

PipeCategory(n, l) == [name |-> n, kind |-> "dir", entries |-> l, content |-> <<>>]

PipeDirs ==
    PipeListings(<<>>)
    \cup {<<PipeCategory(RulesName, l)>> : l \in PipeListings(RulesName)}
    \cup {<<PipeCategory(RulesName, l1), PipeCategory(AgentsName, l2)>> :
             l1 \in PipeListings(RulesName), l2 \in PipeListings(AgentsName)}
    \cup {<<PipeCategory(AgentsName, l2), Leaf(<<"a", ".", "m", "d">>, "file"),
            PipeCategory(RulesName, l1)>> :
             l1 \in PipeListings(RulesName), l2 \in PipeListings(AgentsName)}

PipeStackNames == {<<"r", "e", "a", "c", "t">>, <<"N", "u", "x", "t">>}

\* A project without files, or one that holds a copilot-instructions.md.
PipeProjects == {<<>>, [p \in {CopilotGlobalDest} |-> <<"o", "l", "d">>]}

Init ==
    /\ pc = "init"
    /\ stackName \in PipeStackNames
    /\ stackDir \in PipeDirs
    /\ editor = <<>>
    /\ globs = <<>>
    /\ categories = <<>>
    /\ bodyContent = NoText
    /\ TextIdle
    /\ selected = <<>> /\ loadAll = FALSE /\ alwaysApply = FALSE
    /\ copilotMode = "instructions"
    /\ catIdx = 0 /\ fileIdx = 0 /\ sections = <<>>
    /\ project \in PipeProjects
    /\ projDirs = {} /\ ops = <<>> /\ error = NoError
    /\ HomeIdle

Next ==
    \/ Prompts \/ SkipEmpty \/ CallInject \/ NextCategory \/ Finish
    \/ AgEnsureSkillsDir \/ AgEnsureSkillDir \/ AgRead \/ AgWrite
    \/ CuEnsureDir \/ CuRead \/ CuWrite
    \/ CoEnsureDir \/ CoRead \/ CoWrite
    \/ GlEnsureDir \/ GlRead \/ GlWrite
    \/ FsReject

Spec == Init /\ [][Next]_vars

(***************************************************************************)
(* The home directory: registry.ts, getStacksForEditor and getEditorTree   *)
(* of config.ts, the list action and the first steps of the init action.   *)
(* `disk` maps the path of every directory to its listing, the sequence of *)
(* its entries [name, kind, content] in readdir order; the text of a file  *)
(* is named by the constant of registry.ts that holds it.                  *)
(***************************************************************************)
\* os.homedir()
HomePath == << <<"~">> >>

\* const REGISTRY_ROOT = path.join(os.homedir(), '.ag-skills')
REGISTRY_ROOT == HomePath \o <<<<".", "a", "g", "-", "s", "k", "i", "l", "l", "s">>>>

\* export const DEFAULT_REGISTRY = path.join(os.homedir(), '.ag-skills')
DEFAULT_REGISTRY == HomePath \o <<<<".", "a", "g", "-", "s", "k", "i", "l", "l", "s">>>>

\* readConfig(): a registryPath that `config set-path` has stored
ConfiguredRegistry == HomePath \o <<<<"m", "y", "-", "s", "k", "i", "l", "l", "s">>>>

ReactName == <<"r", "e", "a", "c", "t">>

VueName == <<"v", "u", "e">>

DirEntry(n) == [name |-> n, kind |-> "dir", content |-> <<>>]

FileEntry(n, c) == [name |-> n, kind |-> "file", content |-> c]

Parent(p) == SubSeq(p, 1, Len(p) - 1)

Last(p) == p[Len(p)]

\* An entry of the given kind bears the name of p in the directory of p.
HasEntry(d, p, k) ==
    /\ Len(p) > 1
    /\ Parent(p) \in DOMAIN d
    /\ \E i \in 1..Len(d[Parent(p)]) :
          d[Parent(p)][i].name = Last(p) /\ d[Parent(p)][i].kind = k

\* fs.pathExists(p)
pathExists(d, p) == p \in DOMAIN d \/ HasEntry(d, p, "file")

\* mkdir of p, whose parent directory exists
MkDir(d, p) ==
    [q \in (DOMAIN d) \cup {p} |->
        IF q = p THEN <<>>
        ELSE IF q = Parent(p) THEN Append(d[q], DirEntry(Last(p)))
        ELSE d[q]]

\* mkdir -p: the missing ancestors of p, then p
RECURSIVE MkDirs(_, _)
MkDirs(d, p) ==
    IF p \in DOMAIN d THEN d ELSE MkDir(MkDirs(d, Parent(p)), p)

\* fs.emptyDir(p) in the place of fs.ensureDir(p): the directory is made and
\* what it held is removed.
ensureDir_Emptying(d, p) == [MkDirs(d, p) EXCEPT ![p] = <<>>]

\* fs.ensureDir(p) resolved
ensureDir(d, p) == MkDirs(d, p)

\* fs.ensureDir(p) rejects: a file bears the name of p or of an ancestor.
ensureDirFails(d, p) == \E k \in 2..Len(p) : HasEntry(d, SubSeq(p, 1, k), "file")

\* fs.writeFile(p, c, 'utf-8') resolved, the directory of p being there
WriteFileAt(d, p, c) ==
    LET l == d[Parent(p)]
    IN  [d EXCEPT ![Parent(p)] =
            IF \E i \in 1..Len(l) : l[i].name = Last(p)
            THEN [i \in 1..Len(l) |-> IF l[i].name = Last(p) THEN FileEntry(Last(p), c)
                                      ELSE l[i]]
            ELSE Append(l, FileEntry(Last(p), c))]

\* fs.readdir(p, { withFileTypes: true }); `entries` is what readdir of a
\* subdirectory returns in its turn.
Readdir(d, p) ==
    [i \in 1..Len(d[p]) |->
        [name |-> d[p][i].name, kind |-> d[p][i].kind, content |-> d[p][i].content,
         entries |-> IF d[p][i].kind = "dir" THEN d[p \o <<d[p][i].name>>] ELSE <<>>]]

\* entries.map((e) => e.name), without the filter on isDirectory()
getStacksForEditor_AllEntries(entries) == [i \in 1..Len(entries) |-> entries[i].name]

\* entries.filter((e) => e.isDirectory()).map((e) => e.name)
getStacksForEditor(entries) ==
    [i \in 1..Len(SubDirs(entries)) |-> SubDirs(entries)[i].name]

\* The texts of registry.ts, each named by its constant.
DEMO_SKILL == <<"DEMO_SKILL">>

DEMO_AGENT == <<"DEMO_AGENT">>

DEMO_RULE == <<"DEMO_RULE">>

SkillsName == <<"s", "k", "i", "l", "l", "s">>

InstructionsName == <<"i", "n", "s", "t", "r", "u", "c", "t", "i", "o", "n", "s">>

\* const fileName = category === 'skills' ? ... : category === 'agents' ? ... : ...
ScaffoldFileName(category) ==
    IF category = SkillsName THEN <<"s", "e", "n", "i", "o", "r", "-", "d", "e", "v", "e", "l", "o", "p", "e", "r", ".", "m", "d">>
    ELSE IF category = AgentsName THEN <<"c", "o", "d", "e", "-", "r", "e", "v", "i", "e", "w", "e", "r", ".", "m", "d">>
    ELSE <<"b", "e", "s", "t", "-", "p", "r", "a", "c", "t", "i", "c", "e", "s", ".", "m", "d">>

\* const scaffold, in the order of the nested Object.entries loops
Scaffold ==
    << [editor |-> Antigravity, stack |-> ReactName, category |-> SkillsName,
        content |-> DEMO_SKILL],
       [editor |-> Antigravity, stack |-> ReactName, category |-> AgentsName,
        content |-> DEMO_AGENT],
       [editor |-> Cursor, stack |-> ReactName, category |-> RulesName,
        content |-> DEMO_RULE],
       [editor |-> VsCode, stack |-> ReactName, category |-> InstructionsName,
        content |-> DEMO_SKILL],
       [editor |-> VsCode, stack |-> ReactName, category |-> RulesName,
        content |-> DEMO_RULE] >>

\* What SpecHome leaves alone: the state of the text helpers and of the
\* injection.
homeFrame ==
    <<bodyContent, globs, raw, file, again, title, stackDir, promptVars, loopVars,
      project, projDirs, ops>>

\* The rejection that ends the running command.
Rejection(op, path) == [op |-> op, path |-> path]

\* const editorPath = getEditorPath(registryPath, editor)
EditorPath == getEditorPath(activeRegistryPath, editor)

(***************************************************************************)
(* ag-loader list [--editor <editor>]                                      *)
(***************************************************************************)
NoOption == <<>>

\* The values of --editor: none, an editor key, another word.
ListOptions == {NoOption, <<"x">>} \cup {EDITORS[i] : i \in 1..Len(EDITORS)}

\* opts.editor ? EDITORS.filter((e) => e.key === opts.editor) : EDITORS
EditorsToShow(opt) ==
    IF opt = NoOption THEN EDITORS
    ELSE IF \E i \in 1..Len(EDITORS) : EDITORS[i] = opt THEN <<opt>>
    ELSE <<>>

\* The list action starts.
RunList ==
    /\ pc = "shell"
    /\ runs < MaxRuns
    /\ \E opt \in ListOptions : editorsToShow' = EditorsToShow(opt)
    /\ runs' = runs + 1
    /\ error' = NoError
    /\ pc' = "list.loop"
    /\ UNCHANGED <<homeFrame, categories, editor, stackName, disk, activeRegistryPath,
                   stacks, tree, scaffoldIdx, firstRun>>

\* for (const editor of editorsToShow) { const tree = await getEditorTree(...)
ListEditor ==
    /\ pc = "list.loop"
    /\ editorsToShow # <<>>
    /\ editor' = Head(editorsToShow)
    /\ editorsToShow' = Tail(editorsToShow)
    /\ pc' = "list.getStacks"
    /\ UNCHANGED <<homeFrame, categories, stackName, error, disk, activeRegistryPath,
                   stacks, tree, scaffoldIdx, firstRun, runs>>

\* The loop of the list action is over.
ListDone ==
    /\ pc = "list.loop"
    /\ editorsToShow = <<>>
    /\ pc' = "shell"
    /\ UNCHANGED <<homeFrame, categories, editor, stackName, error, homeVars>>

\* getStacksForEditor(registryPath, editor), called by getEditorTree and by
\* the init action: ensureDir, then readdir.
GetStacksForEditor ==
    /\ pc \in {"list.getStacks", "init.getStacks"}
    /\ IF ensureDirFails(disk, EditorPath)
       THEN /\ error' = Rejection("ensureDir", EditorPath)
            /\ pc' = "shell"
            /\ UNCHANGED <<disk, stacks, tree>>
       ELSE /\ disk' = ensureDir(disk, EditorPath)
            /\ stacks' = getStacksForEditor(Readdir(disk', EditorPath))
            /\ tree' = <<>>
            /\ pc' = IF pc = "list.getStacks" THEN "list.getCategories" ELSE "init.stack"
            /\ UNCHANGED error
    /\ UNCHANGED <<homeFrame, categories, editor, stackName, activeRegistryPath,
                   editorsToShow, scaffoldIdx, firstRun, runs>>

\* getEditorTree: const categories = await getCategoriesForStack(...);
\* tree.push({ stack, categories })
GetEditorTreeStack ==
    /\ pc = "list.getCategories"
    /\ Len(tree) < Len(stacks)
    /\ LET stack == stacks[Len(tree) + 1]
       IN  tree' = Append(tree,
                 [stack |-> stack,
                  categories |-> getCategoriesForStack(EditorPath \o <<stack>>,
                                     Readdir(disk, EditorPath \o <<stack>>))])
    /\ UNCHANGED <<homeFrame, pc, categories, editor, stackName, error, disk,
                   activeRegistryPath, editorsToShow, stacks, scaffoldIdx, firstRun, runs>>

\* getEditorTree returns the tree and the list action prints it.
GetEditorTreeReturn ==
    /\ pc = "list.getCategories"
    /\ Len(tree) = Len(stacks)
    /\ pc' = "list.loop"
    /\ UNCHANGED <<homeFrame, categories, editor, stackName, error, homeVars>>

(***************************************************************************)
(* ag-loader init, up to the choice of the stack. What follows reads the   *)
(* registry and writes below process.cwd(): it is the subject of Spec.     *)
(***************************************************************************)
\* The init action starts: await ensureRegistryExists()
RunInit ==
    /\ pc = "shell"
    /\ runs < MaxRuns
    /\ runs' = runs + 1
    /\ error' = NoError
    /\ pc' = "init.ensureRegistry"
    /\ UNCHANGED <<homeFrame, categories, editor, stackName, disk, activeRegistryPath,
                   editorsToShow, stacks, tree, scaffoldIdx, firstRun>>

\* const exists = await fs.pathExists(REGISTRY_ROOT); if (exists) return;
EnsureRegistryExists ==
    /\ pc = "init.ensureRegistry"
    /\ IF pathExists(disk, REGISTRY_ROOT)
       THEN pc' = "init.editor" /\ UNCHANGED scaffoldIdx
       ELSE pc' = "init.scaffold" /\ scaffoldIdx' = 1
    /\ UNCHANGED <<homeFrame, categories, editor, stackName, error, disk,
                   activeRegistryPath, editorsToShow, stacks, tree, firstRun, runs>>

\* await fs.ensureDir(dirPath); await fs.writeFile(path.join(dirPath, fileName), ...)
ScaffoldCategory ==
    /\ pc = "init.scaffold"
    /\ LET e       == Scaffold[scaffoldIdx]
           dirPath == REGISTRY_ROOT \o <<e.editor, e.stack, e.category>>
       IN  disk' = WriteFileAt(ensureDir(disk, dirPath),
                               dirPath \o <<ScaffoldFileName(e.category)>>, e.content)
    /\ scaffoldIdx' = scaffoldIdx + 1
    /\ pc' = IF scaffoldIdx = Len(Scaffold) THEN "init.editor" ELSE "init.scaffold"
    /\ UNCHANGED <<homeFrame, categories, editor, stackName, error, activeRegistryPath,
                   editorsToShow, stacks, tree, firstRun, runs>>

\* Paso 1: const selectedEditor = editor as EditorKey
SelectEditor ==
    /\ pc = "init.editor"
    /\ editor' \in {EDITORS[i] : i \in 1..Len(EDITORS)}
    /\ pc' = "init.getStacks"
    /\ UNCHANGED <<homeFrame, categories, stackName, error, homeVars>>

\* Paso 2: if (stacks.length === 0) process.exit(0); the stack is chosen and
\* its categories are listed.
SelectStack ==
    /\ pc = "init.stack"
    /\ IF stacks = <<>>
       THEN UNCHANGED <<stackName, categories>>
       ELSE \E i \in 1..Len(stacks) :
               /\ stackName' = stacks[i]
               /\ categories' = getCategoriesForStack(EditorPath \o <<stacks[i]>>,
                                    Readdir(disk, EditorPath \o <<stacks[i]>>))
    /\ pc' = "shell"
    /\ UNCHANGED <<homeFrame, editor, error, homeVars>>

\* { onCancel: () => process.exit(0) }
CancelPrompt ==
    /\ pc \in {"init.editor", "init.stack"}
    /\ pc' = "shell"
    /\ UNCHANGED <<homeFrame, categories, editor, stackName, error, homeVars>>

(***************************************************************************)
(* SpecHome: at most MaxRuns commands, list or init, one after the other,  *)
(* on a home directory whose active registry is absent or holds, for every *)
(* editor, nothing, a file, an empty directory or a directory of stacks.   *)
(***************************************************************************)
EditorStates == {"absent", "file", "empty", "stacks"}

\* An editor directory of stacks: a file, the stack react (a loose file and
\* the category rules) and the stack vue (empty).
HomeListing(root, st, p) ==
    CASE Len(p) = 1 -> <<DirEntry(Last(root))>>
      [] Len(p) = 2 ->
            Flatten([i \in 1..Len(EDITORS) |->
                CASE st[EDITORS[i]] = "absent" -> <<>>
                  [] st[EDITORS[i]] = "file"   -> <<FileEntry(EDITORS[i], <<>>)>>
                  [] OTHER                     -> <<DirEntry(EDITORS[i])>>])
      [] Len(p) = 3 ->
            IF st[Last(p)] = "stacks"
            THEN <<FileEntry(<<"n", "o", "t", "e", "s", ".", "m", "d">>, <<>>), DirEntry(ReactName), DirEntry(VueName)>>
            ELSE <<>>
      [] Len(p) = 4 ->
            IF Last(p) = ReactName
            THEN <<FileEntry(<<"b", ".", "m", "d">>, <<>>), DirEntry(RulesName)>>
            ELSE <<>>
      [] OTHER -> <<FileEntry(<<"a", ".", "m", "d">>, <<>>)>>

HomePaths(root, st) ==
    {HomePath, root}
    \cup {root \o <<EDITORS[i]>> : i \in {j \in 1..Len(EDITORS) :
                                             st[EDITORS[j]] \in {"empty", "stacks"}}}
    \cup UNION {{root \o <<EDITORS[i], ReactName>>, root \o <<EDITORS[i], VueName>>,
                 root \o <<EDITORS[i], ReactName, RulesName>>} :
                i \in {j \in 1..Len(EDITORS) : st[EDITORS[j]] = "stacks"}}

HomeDisks(root) ==
    {[p \in {HomePath} |-> <<>>]}
    \cup {[p \in HomePaths(root, st) |-> HomeListing(root, st, p)] :
             st \in [{EDITORS[i] : i \in 1..Len(EDITORS)} -> EditorStates]}

InitHome ==
    /\ pc = "shell"
    /\ activeRegistryPath \in {DEFAULT_REGISTRY, ConfiguredRegistry}
    /\ disk \in HomeDisks(activeRegistryPath)
    /\ firstRun = ~pathExists(disk, REGISTRY_ROOT)
    /\ editorsToShow = <<>> /\ stacks = <<>> /\ tree = <<>>
    /\ scaffoldIdx = 0 /\ runs = 0
    /\ globs = <<>>
    /\ categories = <<>>
    /\ bodyContent = NoText
    /\ TextIdle
    /\ RegIdle
    /\ PipeIdle

NextHome ==
    \/ RunList \/ ListEditor \/ ListDone
    \/ GetStacksForEditor \/ GetEditorTreeStack \/ GetEditorTreeReturn
    \/ RunInit \/ EnsureRegistryExists \/ ScaffoldCategory
    \/ SelectEditor \/ SelectStack \/ CancelPrompt

SpecHome == InitHome /\ [][NextHome]_vars

(***************************************************************************)
(* C1 (amended): for a stack directory with at least one immediate         *)
(* subdirectory, getCategoriesForStack returns one category per            *)
(* subdirectory, in listing order, named after it and placed in it; a      *)
(* category is named '__root__' only when a subdirectory bears that name;  *)
(* no category is the stack directory itself, so no '.md' file lying       *)
(* directly in the stack directory is a file of any category.              *)
(***************************************************************************)
C1_DirIndexes == {i \in 1..Len(stackDir) : stackDir[i].kind = "dir"}

\* The index in stackDir of its k-th subdirectory.
C1_NthDir(k) ==
    CHOOSE i \in C1_DirIndexes : Cardinality({j \in C1_DirIndexes : j <= i}) = k

\* The paths of the '.md' files lying directly in the stack directory.
C1_LoosePaths ==
    {StackPath \o <<stackDir[i].name>> :
        i \in {j \in 1..Len(stackDir) :
                  stackDir[j].kind = "file" /\ EndsWith(stackDir[j].name, DotMd)}}

C1_FilePaths(c) == {c.absPath \o <<c.files[k]>> : k \in 1..Len(c.files)}

C1_OnePerSubdirNoLooseFile ==
    (pc = "scanned" /\ C1_DirIndexes # {}) =>
        /\ Len(categories) = Cardinality(C1_DirIndexes)
        /\ \A k \in 1..Len(categories) :
              /\ categories[k].name = stackDir[C1_NthDir(k)].name
              /\ categories[k].absPath = StackPath \o <<stackDir[C1_NthDir(k)].name>>
              /\ categories[k].name = RootName =>
                    \E i \in C1_DirIndexes : stackDir[i].name = RootName
              /\ C1_FilePaths(categories[k]) \cap C1_LoosePaths = {}

\* A stack with a subdirectory and a loose '.md' file whose name is also the
\* name of a file of a category.
C1_Witness ==
    /\ pc = "scanned"
    /\ C1_DirIndexes # {}
    /\ C1_LoosePaths # {}
    /\ \E k \in 1..Len(categories) : \E n \in 1..Len(categories[k].files) :
          StackPath \o <<categories[k].files[n]>> \in C1_LoosePaths

\* C1 as stated: with a subdirectory, no returned category is named '__root__'.
C1_Original ==
    (pc = "scanned" /\ C1_DirIndexes # {}) =>
        /\ Len(categories) = Cardinality(C1_DirIndexes)
        /\ \A k \in 1..Len(categories) :
              /\ categories[k].name # RootName
              /\ C1_FilePaths(categories[k]) \cap C1_LoosePaths = {}

(***************************************************************************)
(* C2: for a stack directory without subdirectory, getCategoriesForStack   *)
(* returns exactly one category, named '__root__', whose absPath is the    *)
(* stack directory and whose files are the regular files ending in '.md'   *)
(* directly in it, in listing order.                                       *)
(***************************************************************************)
C2_MdIndexes ==
    {i \in 1..Len(stackDir) :
        stackDir[i].kind = "file" /\ EndsWith(stackDir[i].name, DotMd)}

\* The index in stackDir of its k-th regular '.md' file.
C2_NthMd(k) ==
    CHOOSE i \in C2_MdIndexes : Cardinality({j \in C2_MdIndexes : j <= i}) = k

C2_RootCategoryOnly ==
    (pc = "scanned" /\ \A i \in 1..Len(stackDir) : stackDir[i].kind # "dir") =>
        /\ Len(categories) = 1
        /\ categories[1].name = RootName
        /\ categories[1].absPath = StackPath
        /\ Len(categories[1].files) = Cardinality(C2_MdIndexes)
        /\ \A k \in 1..Len(categories[1].files) :
              categories[1].files[k] = stackDir[C2_NthMd(k)].name

\* A directory without subdirectory that lists 'b.md' before 'a.md', beside a
\* file that is no '.md' file.
C2_Witness ==
    /\ pc = "scanned"
    /\ \A i \in 1..Len(stackDir) : stackDir[i].kind # "dir"
    /\ Len(categories) = 1
    /\ categories[1].files = << <<"b", ".", "m", "d">>, <<"a", ".", "m", "d">> >>
    /\ \E i \in 1..Len(stackDir) : ~EndsWith(stackDir[i].name, DotMd)

(***************************************************************************)
(* C6 (amended): globForStack returns the glob of the first keyword, in    *)
(* the order react, next, vue, angular, svelte, shopify, node, python,     *)
(* laravel, nuxt, that occurs in the lower-cased stack name; 'nuxt' has a  *)
(* glob of its own, '**/*.{vue,ts}'; without keyword it returns '**/*'.    *)
(***************************************************************************)
C6_JsFramework == <<"*","*","/","*",".","{","t","s","x",",","j","s","x",",","t","s",",","j","s","}">>

C6_VueTsJs == <<"*","*","/","*",".","{","v","u","e",",","t","s",",","j","s","}">>

C6_TsJs == <<"*","*","/","*",".","{","t","s",",","j","s","}">>

C6_Rest == <<
    << <<"a","n","g","u","l","a","r">>, <<"*","*","/","*",".","{","t","s",",","h","t","m","l","}">> >>,
    << <<"s","v","e","l","t","e">>,     <<"*","*","/","*",".","{","s","v","e","l","t","e",",","t","s","}">> >>,
    << <<"s","h","o","p","i","f","y">>, <<"*","*","/","*",".","{","l","i","q","u","i","d",",","j","s","o","n","}">> >>,
    << <<"n","o","d","e">>,             C6_TsJs >>,
    << <<"p","y","t","h","o","n">>,     <<"*","*","/","*",".","p","y">> >>,
    << <<"l","a","r","a","v","e","l">>, <<"*","*","/","*",".","{","p","h","p",",","b","l","a","d","e",".","p","h","p","}">> >> >>

\* The table of the source, in its order.
C6_SourceTable ==
    << << <<"r","e","a","c","t">>, C6_JsFramework >>,
       << <<"n","e","x","t">>,     C6_JsFramework >>,
       << <<"v","u","e">>,         C6_VueTsJs >> >>
    \o C6_Rest
    \o << << <<"n","u","x","t">>, <<"*","*","/","*",".","{","v","u","e",",","t","s","}">> >> >>

\* The table as the claim states it: nuxt beside vue, with the glob of vue.
C6_ClaimedTable ==
    << << <<"r","e","a","c","t">>, C6_JsFramework >>,
       << <<"n","e","x","t">>,     C6_JsFramework >>,
       << <<"v","u","e">>,         C6_VueTsJs >>,
       << <<"n","u","x","t">>,     C6_VueTsJs >> >>
    \o C6_Rest

\* g is the glob of the first keyword of table that occurs in the name,
\* whatever the case of its letters, or '**/*' when none occurs.
C6_FirstKeywordWins(table, name, g) ==
    /\ \A i \in 1..Len(table) :
          (/\ Includes(ToLowerCase(name), table[i][1])
           /\ \A j \in 1..(i - 1) : ~Includes(ToLowerCase(name), table[j][1]))
          => g = table[i][2]
    /\ (\A i \in 1..Len(table) : ~Includes(ToLowerCase(name), table[i][1]))
          => g = <<"*", "*", "/", "*">>

C6_FirstKeywordInSourceOrder ==
    pc = "globbed" => C6_FirstKeywordWins(C6_SourceTable, stackName, globs)

\* A name that holds both 'nuxt' and 'node' gets the glob of 'node'.
C6_Witness ==
    /\ pc = "globbed"
    /\ Includes(ToLowerCase(stackName), <<"n","u","x","t">>)
    /\ Includes(ToLowerCase(stackName), <<"n","o","d","e">>)
    /\ globs = C6_TsJs

\* C6 as stated.
C6_Original ==
    pc = "globbed" => C6_FirstKeywordWins(C6_ClaimedTable, stackName, globs)

(***************************************************************************)
(* C3: frontmatter stripping is idempotent on every text that starts with  *)
(* a frontmatter delimiter, leading whitespace before it allowed:          *)
(* readMarkdown(readMarkdown(x)) = readMarkdown(x).                        *)
(***************************************************************************)
C3_StripIdempotent ==
    (pc = "reread" /\ StartsWith(TrimStart(raw), Dashes)) => again = bodyContent

(***************************************************************************)
(* C4: readMarkdown returns a text that does not begin with a '---' line   *)
(* unchanged; otherwise it removes the first '---' line through the next   *)
(* '---' line (also when that is the last line of the file) and the blank  *)
(* lines that follow, and nothing else.                                    *)
(***************************************************************************)
\* A line that is exactly '---' starts at index i.
C4_DelimiterLineAt(x, i) ==
    /\ i = 1 \/ x[i - 1] = NL
    /\ i + 2 <= Len(x)
    /\ SubSeq(x, i, i + 2) = Dashes
    /\ i + 2 = Len(x) \/ x[i + 3] = NL

\* x without its leading blank lines (lines of whitespace only).
C4_DropBlankLines(x) ==
    LET ends == {e \in 0..Len(x) :
                    /\ \A j \in 1..e : IsWs(x[j])
                    /\ e = 0 \/ x[e] = NL \/ e = Len(x)}
    IN  From(x, SetMax(ends) + 1)

C4_Expected(x) ==
    IF ~C4_DelimiterLineAt(x, 1) THEN x
    ELSE LET closes == {k \in 4..Len(x) : C4_DelimiterLineAt(x, k)}
         IN  IF closes = {} THEN x
             ELSE C4_DropBlankLines(From(x, SetMin(closes) + 4))

C4_StripsExactlyTheBlock ==
    pc = "read" => bodyContent = C4_Expected(raw)

(***************************************************************************)
(* C5: the derived title is the trimmed text of the first line of the body *)
(* of the form '# <text>', matched within that line; without such a line   *)
(* it is the file name without its extension. A line '#' with no text      *)
(* never takes its title from the line that follows.                      *)
(***************************************************************************)
\* A line '# <text>' with some text starts at index p.
C5_HeadingLineAt(b, p) ==
    /\ p = 1 \/ b[p - 1] = NL
    /\ b[p] = "#"
    /\ p + 1 <= Len(b)
    /\ b[p + 1] \in {" ", "\t"}
    /\ Trim(SubSeq(b, p + 1, LineEnd(b, p))) # <<>>

C5_WithoutExtension(f) ==
    SubSeq(f, 1, SetMax({i \in 1..Len(f) : f[i] = "."}) - 1)

C5_Expected(b, f) ==
    LET heads == {p \in 1..Len(b) : C5_HeadingLineAt(b, p)}
    IN  IF heads = {} THEN C5_WithoutExtension(f)
        ELSE Trim(SubSeq(b, SetMin(heads) + 1, LineEnd(b, SetMin(heads))))

C5_TitleFromOneLine ==
    pc = "titled" => title = C5_Expected(bodyContent, file)

(***************************************************************************)
(* C7: injectCursor writes, for each source file of the category, exactly  *)
(* one file, at <project>/.cursor/rules/<basename>.mdc, whose content is   *)
(* '---\ndescription: <derived title>\nglobs: <glob for stack>\n           *)
(* alwaysApply: <flag>\n---\n\n' followed by the frontmatter-stripped body *)
(* of that source file, and writes no other file.                          *)
(***************************************************************************)
\* The indexes in ops of the files written for the category of the loop.
C7_Writes == {k \in 1..Len(ops) : ops[k].op = "writeFile" /\ ops[k].cat = catIdx}

C7_Path(f) ==
    << <<"c", "w", "d">>, <<".", "c", "u", "r", "s", "o", "r">>, <<"r", "u", "l", "e", "s">>,
       BaseName(f) \o <<".", "m", "d", "c">> >>

C7_Content(f) ==
    LET body == readMarkdown(ReadFile(StackPath, stackDir, CurCat.absPath \o <<f>>))
    IN  <<"-", "-", "-", "\n">>
        \o <<"d","e","s","c","r","i","p","t","i","o","n",":"," ">> \o DeriveTitle(body, f)
        \o <<"\n", "g", "l", "o", "b", "s", ":", " ">> \o globForStack(stackName)
        \o <<"\n", "a","l","w","a","y","s","A","p","p","l","y",":"," ">>
        \o (IF alwaysApply THEN <<"t", "r", "u", "e">> ELSE <<"f", "a", "l", "s", "e">>)
        \o <<"\n", "-", "-", "-", "\n", "\n">>
        \o body

C7_OneMdcPerFile ==
    (pc = "returned" /\ editor = Cursor) =>
        /\ \A i \in 1..Len(CurCat.files) :
              /\ Cardinality({k \in C7_Writes : ops[k].path = C7_Path(CurCat.files[i])}) = 1
              /\ C7_Path(CurCat.files[i]) \in DOMAIN project
              /\ project[C7_Path(CurCat.files[i])] = C7_Content(CurCat.files[i])
        /\ \A k \in C7_Writes :
              \E i \in 1..Len(CurCat.files) : ops[k].path = C7_Path(CurCat.files[i])

\* injectCursor has returned from a category of two files, one of which
\* carried a frontmatter block of its own.
C7_Witness ==
    /\ pc = "returned"
    /\ editor = Cursor
    /\ Len(CurCat.files) = 2
    /\ Cardinality(C7_Writes) = 2
    /\ \E i \in 1..2 :
          hasFrontmatter(ReadFile(StackPath, stackDir, CurCat.absPath \o <<CurCat.files[i]>>))

(***************************************************************************)
(* C8 (amended): injectCopilot in mode 'global' writes exactly one file,   *)
(* .github/copilot-instructions.md, whose content is the sections          *)
(* '# <derivedTitle_i>\n\n<body_i>' in listing order joined by             *)
(* '\n\n---\n\n', body_i being the frontmatter-stripped body of f_i with   *)
(* the whitespace at both its ends removed; titles 'One', 'Two' and bodies *)
(* 'x', 'y' give '# One\n\nx' + separator + '# Two\n\ny'.                  *)
(***************************************************************************)
C8_Separator == <<"\n", "\n", "-", "-", "-", "\n", "\n">>

C8_Body(i) == readMarkdown(ReadFile(StackPath, stackDir, CurCat.absPath \o <<CurCat.files[i]>>))

C8_Title(i) == DeriveTitleCopilot(C8_Body(i), CurCat.files[i])

\* The sections with the separator between every two of them.
C8_Joined(secs) ==
    Flatten([k \in 1..(2 * Len(secs) - 1) |->
                IF k % 2 = 1 THEN secs[(k + 1) \div 2] ELSE C8_Separator])

C8_TrimmedSections ==
    [i \in 1..Len(CurCat.files) |->
        <<"#", " ">> \o C8_Title(i) \o <<"\n", "\n">> \o Trim(C8_Body(i))]

C8_StatedSections ==
    [i \in 1..Len(CurCat.files) |->
        <<"#", " ">> \o C8_Title(i) \o <<"\n", "\n">> \o C8_Body(i)]

C8_GlobalPath ==
    << <<"c", "w", "d">>, <<".", "g", "i", "t", "h", "u", "b">>,
       <<"c","o","p","i","l","o","t","-","i","n","s","t","r","u","c","t","i","o","n","s",".","m","d">> >>

C8_OneFile ==
    /\ Cardinality({k \in 1..Len(ops) : ops[k].op = "writeFile" /\ ops[k].cat = catIdx}) = 1
    /\ \A k \in 1..Len(ops) :
          (ops[k].op = "writeFile" /\ ops[k].cat = catIdx) => ops[k].path = C8_GlobalPath
    /\ C8_GlobalPath \in DOMAIN project

C8_SectionsTrimmedAndJoined ==
    /\ (pc = "returned" /\ editor = VsCode /\ copilotMode = "global") =>
          /\ C8_OneFile
          /\ project[C8_GlobalPath] = C8_Joined(C8_TrimmedSections)
    /\ JoinSections(<<CopilotSection(<<"O", "n", "e">>, <<"x">>),
                      CopilotSection(<<"T", "w", "o">>, <<"y">>)>>)
          = <<"#", " ", "O", "n", "e", "\n", "\n", "x",
              "\n", "\n", "-", "-", "-", "\n", "\n",
              "#", " ", "T", "w", "o", "\n", "\n", "y">>

\* Two files were consolidated, and the body of one of them ends or starts
\* with whitespace.
C8_Witness ==
    /\ pc = "returned"
    /\ editor = VsCode
    /\ copilotMode = "global"
    /\ Len(CurCat.files) = 2
    /\ \E i \in 1..2 : Trim(C8_Body(i)) # C8_Body(i)

\* C8 as stated: the bodies as readMarkdown returns them.
C8_Original ==
    (pc = "returned" /\ editor = VsCode /\ copilotMode = "global") =>
        /\ C8_OneFile
        /\ project[C8_GlobalPath] = C8_Joined(C8_StatedSections)

(***************************************************************************)
(* C9: in every emission function, when a filesystem call on the i-th file *)
(* of a category fails, the emission stops at once: no call is made after  *)
(* the failed one (no later read or write, no retry), the command ends     *)
(* with the rejection of that call, unmodified, and the files written      *)
(* before for the category stay in the project as they were written.       *)
(***************************************************************************)
C9_AbortsAtFirstFailure ==
    /\ \A k \in 1..Len(ops) :
          ~ops[k].ok =>
              /\ k = Len(ops)
              /\ pc = "failed"
              /\ error = [op |-> ops[k].op, path |-> ops[k].path]
              /\ \A j \in 1..(k - 1) :
                    (ops[j].op = "writeFile" /\ ops[j].cat = ops[k].cat) =>
                        /\ ops[j].ok
                        /\ ops[j].path \in DOMAIN project
                        /\ project[ops[j].path] = ops[j].data
    /\ pc = "failed" => (Len(ops) > 0 /\ ~ops[Len(ops)].ok /\ ~ENABLED Next)

\* The read of the second file of a category failed after the first file
\* had been written.
C9_Witness ==
    /\ pc = "failed"
    /\ error.op = "readFile"
    /\ fileIdx = 2
    /\ \E j \in 1..Len(ops) : ops[j].op = "writeFile" /\ ops[j].cat = catIdx /\ ops[j].ok

(***************************************************************************)
(* C10: after 'load the whole stack' has run without error, the project    *)
(* holds, for every file of every category of the stack, the artifact      *)
(* derived from that file (in mode 'global', its section), whatever the    *)
(* editor and the options.                                                 *)
(***************************************************************************)
C10_Body(c, i) == readMarkdown(ReadFile(StackPath, stackDir, c.absPath \o <<c.files[i]>>))

C10_Holds(path, content) == path \in DOMAIN project /\ project[path] = content

C10_Injected(c, i) ==
    CASE editor = Antigravity ->
            C10_Holds(AntigravityDest(c.files[i]),
                      AntigravityContent(C10_Body(c, i), c.files[i]))
      [] editor = Cursor ->
            C10_Holds(CursorDest(c.files[i]),
                      CursorContent(C10_Body(c, i), c.files[i], globForStack(stackName),
                                    alwaysApply))
      [] editor = VsCode /\ copilotMode = "instructions" ->
            C10_Holds(CopilotDest(c.files[i]),
                      CopilotContent(C10_Body(c, i), globForStack(stackName)))
      [] editor = VsCode /\ copilotMode = "global" ->
            /\ CopilotGlobalDest \in DOMAIN project
            /\ Includes(project[CopilotGlobalDest],
                        CopilotSection(DeriveTitleCopilot(C10_Body(c, i), c.files[i]),
                                       C10_Body(c, i)))

C10_WholeStackInjected ==
    (pc = "done" /\ loadAll) =>
        \A k \in 1..Len(categories) : \A i \in 1..Len(categories[k].files) :
            C10_Injected(categories[k], i)

(***************************************************************************)
(* C11: a category without files is a no-op of the injection: the step     *)
(* that processes it makes no filesystem call, creates, changes or removes *)
(* no file and no directory of the project and raises no error, whatever   *)
(* the editor and the mode; the loop goes on with the next category.       *)
(***************************************************************************)
C11_EmptyCategory ==
    pc = "loop" /\ catIdx <= Len(selected) /\ Len(selected[catIdx].files) = 0

C11_EmptyCategoryIsNoOp ==
    [][C11_EmptyCategory =>
          /\ project' = project
          /\ projDirs' = projDirs
          /\ ops' = ops
          /\ error' = NoError
          /\ pc' = "loop"
          /\ catIdx' = catIdx + 1]_vars

\* VS Code, mode 'global': every selected category was empty, the command
\* is over and the copilot-instructions.md of the project is as it was.
C11_Witness ==
    /\ pc = "done"
    /\ editor = VsCode /\ copilotMode = "global"
    /\ Len(selected) > 0
    /\ \A k \in 1..Len(selected) : selected[k].files = <<>>
    /\ CopilotGlobalDest \in DOMAIN project
    /\ project[CopilotGlobalDest] = <<"o", "l", "d">>
    /\ ops = <<>>

(***************************************************************************)
(* C12 (amended): getEditorTree never changes or removes what exists below *)
(* the home directory. Its only effect is that a directory                 *)
(* <root>/<editor>/ it finds absent is made, empty, together with its      *)
(* missing ancestors, <root> included; when <root>/<editor>/ exists, or    *)
(* when the call fails, the filesystem after the call is the filesystem    *)
(* before it.                                                              *)
(***************************************************************************)
\* A step of getEditorTree: of getStacksForEditor or of its loop on stacks.
C12_InGetEditorTree == pc \in {"list.getStacks", "list.getCategories"}

C12_EditorDir == activeRegistryPath \o <<editor>>

C12_NewDir(n) == [name |-> n, kind |-> "dir", content |-> <<>>]

C12_OnlyMakesEditorDir ==
    [][C12_InGetEditorTree =>
          /\ C12_EditorDir \in DOMAIN disk => disk' = disk
          /\ error' # NoError => disk' = disk
          /\ \A p \in DOMAIN disk :
                /\ p \in DOMAIN disk'
                /\ \/ disk'[p] = disk[p]
                   \/ \E k \in 2..Len(C12_EditorDir) :
                         /\ p = SubSeq(C12_EditorDir, 1, k - 1)
                         /\ disk'[p] = Append(disk[p], C12_NewDir(C12_EditorDir[k]))
          /\ \A p \in (DOMAIN disk') \ (DOMAIN disk) :
                \E k \in 2..Len(C12_EditorDir) :
                   /\ p = SubSeq(C12_EditorDir, 1, k)
                   /\ disk'[p] = IF k = Len(C12_EditorDir) THEN <<>>
                                 ELSE <<C12_NewDir(C12_EditorDir[k + 1])>>]_vars

\* `ag-loader list` was the first command on a home directory without
\* ~/.ag-skills/: getStacksForEditor has made the registry and the editor
\* directory, which is empty.
C12_Witness ==
    /\ pc = "list.getCategories"
    /\ firstRun /\ runs = 1
    /\ activeRegistryPath = DEFAULT_REGISTRY
    /\ C12_EditorDir \in DOMAIN disk
    /\ disk[C12_EditorDir] = <<>>
    /\ stacks = <<>>

\* C12 as stated: no step of getEditorTree changes the filesystem.
C12_Original == [][C12_InGetEditorTree => disk' = disk]_vars

(***************************************************************************)
(* C13: on a home directory where ~/.ag-skills/ did not exist before the   *)
(* first command, whenever a command (list or init) has ended and          *)
(* ~/.ag-skills/ exists, it holds for each of the three editors a stack    *)
(* react with at least one '.md' file.                                     *)
(***************************************************************************)
C13_MdIn(p) ==
    /\ p \in DOMAIN disk
    /\ \E i \in 1..Len(disk[p]) :
          disk[p][i].kind = "file" /\ EndsWith(disk[p][i].name, <<".", "m", "d">>)

C13_HasExample(ed) ==
    LET react == REGISTRY_ROOT \o <<ed, <<"r", "e", "a", "c", "t">>>>
    IN  /\ react \in DOMAIN disk
        /\ \/ C13_MdIn(react)
           \/ \E i \in 1..Len(disk[react]) : C13_MdIn(react \o <<disk[react][i].name>>)

C13_ExamplesOnceRegistryExists ==
    (firstRun /\ pc = "shell" /\ error = NoError /\ REGISTRY_ROOT \in DOMAIN disk) =>
        \A i \in 1..Len(EDITORS) : C13_HasExample(EDITORS[i])

(***************************************************************************)
(* C14: getStacksForEditor returns the names of the immediate              *)
(* subdirectories of <root>/<editor>/, in listing order, and of no other   *)
(* entry; when <root>/<editor>/ does not exist or has no subdirectory it   *)
(* returns the empty sequence; it raises no error. (No file bears the name *)
(* of the editor directory.)                                               *)
(***************************************************************************)
C14_Called == pc \in {"list.getStacks", "init.getStacks"}

C14_EditorDir == activeRegistryPath \o <<editor>>

C14_DirIndexes(l) == {i \in 1..Len(l) : l[i].kind = "dir"}

C14_Subdirectories ==
    IF C14_EditorDir \in DOMAIN disk
    THEN LET l == disk[C14_EditorDir]
         IN  [k \in 1..Cardinality(C14_DirIndexes(l)) |->
                l[CHOOSE i \in C14_DirIndexes(l) :
                     Cardinality({j \in C14_DirIndexes(l) : j <= i}) = k].name]
    ELSE <<>>

\* A file bears the name <root>/<editor>.
C14_NameTaken ==
    /\ activeRegistryPath \in DOMAIN disk
    /\ \E i \in 1..Len(disk[activeRegistryPath]) :
          /\ disk[activeRegistryPath][i].name = editor
          /\ disk[activeRegistryPath][i].kind # "dir"

C15_Global == editor = VsCode /\ copilotMode = "global"

C15_IsRead(j, k, i) ==
    ops[j].op = "readFile" /\ ops[j].cat = k /\ ops[j].file = i

C15_IsWrite(j, k) == ops[j].op = "writeFile" /\ ops[j].cat = k

\* Every read is the read of the next file of the listing, made once.
C15_ReadsInListingOrder ==
    \A j \in 1..Len(ops) :
        ops[j].op = "readFile" =>
            LET k == ops[j].cat
                i == ops[j].file
            IN  /\ i \in 1..Len(selected[k].files)
                /\ ops[j].path = selected[k].absPath \o <<selected[k].files[i]>>
                /\ \A j0 \in 1..(j - 1) : ~C15_IsRead(j0, k, i)
                /\ i > 1 => \E j0 \in 1..(j - 1) : C15_IsRead(j0, k, i - 1) /\ ops[j0].ok

\* The read of file i+1 comes after the write that ends with the body of
\* file i.
C15_WriteBeforeNextRead ==
    \A j \in 1..Len(ops) :
        (ops[j].op = "readFile" /\ ops[j].file > 1) =>
            \E jr \in 1..(j - 1) : \E jw \in (jr + 1)..(j - 1) :
                /\ C15_IsRead(jr, ops[j].cat, ops[j].file - 1)
                /\ C15_IsWrite(jw, ops[j].cat)
                /\ ops[jw].file = ops[j].file - 1
                /\ ops[jw].ok
                /\ EndsWith(ops[jw].data, readMarkdown(ops[jr].data))

\* Mode 'global': every read of the category lies before its write, which
\* comes once the last file is read.
C15_ReadsThenOneWrite ==
    \A jw \in 1..Len(ops) :
        ops[jw].op = "writeFile" =>
            /\ \A j \in 1..Len(ops) :
                  (ops[j].cat = ops[jw].cat /\ j # jw) => (j < jw /\ ops[j].op # "writeFile")
            /\ \A i \in 1..Len(selected[ops[jw].cat].files) :
                  \E j \in 1..(jw - 1) : C15_IsRead(j, ops[jw].cat, i) /\ ops[j].ok

\* A call joins the settled calls only when it was the call the program
\* awaited, and one at a time.
C15_OneCallAtATime ==
    ops' # ops => (Awaiting /\ Len(ops') = Len(ops) + 1 /\ SubSeq(ops', 1, Len(ops)) = ops)

C15_OneFileAtATime ==
    /\ [](C15_ReadsInListingOrder
          /\ (IF C15_Global THEN C15_ReadsThenOneWrite ELSE C15_WriteBeforeNextRead))
    /\ [][C15_OneCallAtATime]_vars

\* Mode 'global', a category of two files: both were read, then the file
\* was written.
C15_Witness ==
    /\ pc = "returned"
    /\ C15_Global
    /\ Len(selected[catIdx].files) = 2
    /\ \E j \in 1..Len(ops) :
          /\ C15_IsRead(j, catIdx, 1)
          /\ C15_IsRead(j + 1, catIdx, 2)
          /\ C15_IsWrite(j + 2, catIdx)

\* C15 as stated: in every profile and mode the write of file i precedes
\* the read of file i+1.
C15_Original == [](C15_ReadsInListingOrder /\ C15_WriteBeforeNextRead)

====
